---- MODULE Spec2Model ----
(***************************************************************************)
(* The credential validation pipeline of snowmerak/inventory: the route     *)
(* POST /keys/validate (rate check, then ValidatorService.validateApiKey),  *)
(* the Redis lock, the Redis cache-aside layer, the durable record store,   *)
(* the publisher and the administrative revoke and cleanup.                 *)
(*                                                                          *)
(* Every await of the code is a point where another task, the clock or the *)
(* Redis/Mongo servers may act, so every remote operation is one action.    *)
(* Times are in milliseconds; the clock advances in steps of Step.          *)
(***************************************************************************)
EXTENDS Integers, Sequences, FiniteSets, TLC

\* ------------------------------------------------------------------ bounds
MaxTime == 1          \* clock steps a run explores
MaxEntries == 4       \* checkLimit calls a run makes for one identity
rateLimitMax == 2     \* env.rateLimitMax (RATE_LIMIT_MAX)
rateLimitWindow == 10000  \* env.rateLimitWindow (RATE_LIMIT_WINDOW), ms
cacheTtl == 15        \* env.cacheTtl (CACHE_TTL), seconds

\* --------------------------------------------------------------- constants
lockTtl == 10000      \* validateApiKey: this.lock.acquire(lockKey, 10000)

Step == lockTtl
Horizon == MaxTime * Step

Calls == {"c1", "c2"}          \* concurrent request tasks
Secrets == {"s1", "s2"}        \* plaintext secrets that can be presented
KeySecrets == {"s1"}           \* secrets generateApiKey returns in a run
UsesChoices == {1, 2}          \* maxUses a publish asks for
Identities == {"ip1", "ip2"}   \* getClientIp results
ItemKeys == {"app://users/u1"}
PermissionLists == {<<"read">>}

\* null: an absent record, cache entry, request or answer
Null == [kind |-> "null"]
\* no lock value
NoValue == <<>>

\* ------------------------------------------------------------------- codec
\* generateSearchableHash: the first 16 hex characters of SHA-1, a truncated
\* digest on which distinct secrets may collide (s1 and s2 do).
generateSearchableHash(apiKey) == "f1"

\* hashApiKey: the Argon2id verifier of a secret.
hashApiKey(apiKey) == <<"argon2id", apiKey>>

\* A verification that accepts any secret against any verifier.
verifyApiKey_Any(hashedKey, apiKey) == TRUE

\* verifyApiKey: argon2.verify(hashedKey, apiKey); false on malformed input.
verifyApiKey(hashedKey, apiKey) == hashedKey = hashApiKey(apiKey)

Verifiers == {hashApiKey(s) : s \in Secrets}

\* Date.toISOString and new Date(iso): the cache stores expiresAt as text.
toISOString(t) == <<"iso", t>>
parseDate(iso) == iso[2]

\* A date text that new Date() cannot parse, and isNaN(date.getTime()).
Unparseable == <<"not-a-date", 0>>
isNaN(text) == text[1] # "iso"

\* new URL(itemKey): the protocol and hostname of the texts the publisher is
\* given; null where the constructor throws.
URL(itemKey) ==
  CASE itemKey = "app://users/u1" -> [protocol |-> "app:", hostname |-> "users"]
    [] itemKey = "app://orders/o1" -> [protocol |-> "app:", hostname |-> "orders"]
    [] itemKey = "mailto:u1" -> [protocol |-> "mailto:", hostname |-> ""]
    [] OTHER -> Null

\* An item key check that accepts every text.
validateItemKey_Any(itemKey) == TRUE

\* validateItemKey: parses as a URL with a protocol and a hostname.
validateItemKey(itemKey) ==
  /\ URL(itemKey) # Null
  /\ URL(itemKey).protocol # ""
  /\ URL(itemKey).hostname # ""


\* --------------------------------------------------------------- logger
\* A text is a sequence of parts: a literal, a whole value, or the first
\* characters of a value.
Whole(value) == <<<<"whole", value>>>>

\* The template `validate:${apiKey}`.
lockKeyOf(apiKey) == <<<<"lit", "validate:">>>> \o Whole(apiKey)

\* text.substring(0, 8) + '***' of a text that is one whole value
mask8(text) == <<<<"first8", text[1][2]>>, <<"lit", "***">>>>

\* maskSensitiveData: of the properties the services log, apiKey is cut to
\* its first 8 characters; a property under any other name passes unchanged.
maskSensitiveData(properties) ==
  [k \in DOMAIN properties |->
     IF k = "apiKey" THEN mask8(properties[k]) ELSE properties[k]]

\* The records DistributedLock.acquire and release write: resource.
lockLog(resource) == {maskSensitiveData([resource |-> resource])}

\* The records ApiKeyCache.get, set and incrementUsage write: apiKey.
cacheLog(apiKey) == {maskSensitiveData([apiKey |-> Whole(apiKey)])}

VARIABLES
  now,        \* Date.now()
  store,      \* the api_keys collection, by hashedApiKey (unique index)
  cache,      \* Redis inventory:api_key:<secret>
  lock,       \* Redis inventory:lock:validate:<secret>
  rate,       \* Redis inventory:ratelimit:<identity> (sorted set)
  pc,         \* where each request task stands
  req,        \* each task's request: apiKey, and what the store held for it
  lockValue,  \* validateApiKey's lockValue
  cachedData, \* validateApiKey's cachedData
  data,       \* ApiKeyCache.incrementUsage's data
  validApiKey,\* validateApiKey's validApiKey
  updatedKey, \* validateApiKey's updatedKey
  pending,    \* the return value or thrown error on its way through finally
  result,     \* what the route answered
  wrote,      \* which of store and cache the task's current request wrote
  issued,     \* secrets publishApiKey has returned
  history,    \* per identity, the checkLimit calls made: instant and outcome
  reported,   \* per secret, the usedCount of its latest successful response
  pub,        \* the publishApiKey call: its position, request, locals, answer
  log         \* what the console sink has written of the secrets it was handed

vars == <<now, store, cache, lock, rate, pc, req, lockValue, cachedData,
          data, validApiKey, updatedKey, pending, result, wrote, issued,
          history, reported, pub, log>>

locals == <<lockValue, cachedData, data, validApiKey, updatedKey>>

\* ------------------------------------------------------------------ Redis
NoLock == [value |-> NoValue, ttlAt |-> 0]
NoRate == [entries |-> <<>>, ttlAt |-> 0]

\* A key with a TTL is gone once the clock reaches its deadline.
Alive(entry, t) == entry # Null /\ t < entry.ttlAt

\* ----------------------------------------------------- DistributedLock
\* generateLockValue: `${Date.now()}-${Math.random()...}`, unique per call.
generateLockValue(c, t) == <<t, c>>

\* An acquire without NX: a plain SET that takes over a held lock.
acquireSet_Overwrite(held, value, ttl, t) ==
  [ok |-> TRUE, lock |-> [value |-> value, ttlAt |-> t + ttl]]

\* acquire: SET key value PX ttl NX. The new lock, or the lock unchanged.
acquireSet(held, value, ttl, t) ==
  IF held.value = NoValue
    THEN [ok |-> TRUE, lock |-> [value |-> value, ttlAt |-> t + ttl]]
    ELSE [ok |-> FALSE, lock |-> held]

\* A release without the token check: a plain DEL.
releaseScript_Unchecked(held, value) == [ok |-> TRUE, lock |-> NoLock]

\* A release that never deletes the key.
releaseScript_Skip(held, value) == [ok |-> FALSE, lock |-> held]

\* release: the Lua script, get == token then del.
releaseScript(held, value) ==
  IF held.value = value
    THEN [ok |-> TRUE, lock |-> NoLock]
    ELSE [ok |-> FALSE, lock |-> held]

\* ------------------------------------------------------------ RateLimiter
\* zremrangebyscore(key, 0, windowStart): scores in [0, windowStart] go.
zremrangebyscore(entries, windowStart) ==
  SelectSeq(entries, LAMBDA score : ~(0 <= score /\ score <= windowStart))

\* A limiter that records a call only when it admits it.
checkLimit_AdmittedOnly(key, maxRequests, windowMs, t) ==
  LET kept == zremrangebyscore(key.entries, t - windowMs)
      count == Len(kept)
  IN [admitted |-> ~(count >= maxRequests),
      key |-> [entries |-> IF count >= maxRequests THEN kept
                           ELSE Append(kept, t),
               ttlAt |-> t + ((windowMs + 999) \div 1000) * 1000]]

\* A limiter that counts the call's own entry: zcard after zadd.
checkLimit_CountAfterAdd(key, maxRequests, windowMs, t) ==
  LET kept == zremrangebyscore(key.entries, t - windowMs)
      count == Len(kept) + 1
  IN [admitted |-> ~(count >= maxRequests),
      key |-> [entries |-> Append(kept, t),
               ttlAt |-> t + ((windowMs + 999) \div 1000) * 1000]]

\* A limiter that rejects only above the limit: count > maxRequests.
checkLimit_OffByOne(key, maxRequests, windowMs, t) ==
  LET kept == zremrangebyscore(key.entries, t - windowMs)
      count == Len(kept)
  IN [admitted |-> ~(count > maxRequests),
      key |-> [entries |-> Append(kept, t),
               ttlAt |-> t + ((windowMs + 999) \div 1000) * 1000]]

\* checkLimit's MULTI/EXEC: prune, count, add, expire; one Redis transaction.
checkLimit(key, maxRequests, windowMs, t) ==
  LET kept == zremrangebyscore(key.entries, t - windowMs)
      count == Len(kept)
  IN [admitted |-> ~(count >= maxRequests),
      key |-> [entries |-> Append(kept, t),
               ttlAt |-> t + ((windowMs + 999) \div 1000) * 1000]]

\* ------------------------------------------------------------ validator
\* the expiry test of both paths: expiresAt <= new Date()
isExpired(expiresAt, t) == expiresAt <= t

\* the usage test of both paths: usedCount >= maxUses
isExhausted(usedCount, maxUses) == usedCount >= maxUses

\* The hit-path checks with the verification after the other two tests.
hitCheck_VerifyLast(d, apiKey, t) ==
  IF isExpired(d.expiresAt, t) THEN "ExpiredError"
  ELSE IF isExhausted(d.usedCount, d.maxUses) THEN "UsageLimitError"
  ELSE IF ~verifyApiKey(d.hashedApiKey, apiKey) THEN "UnauthorizedError"
  ELSE "ok"

\* The hit-path checks with the usage test ahead of the expiry test.
hitCheck_UsageFirst(d, apiKey, t) ==
  IF ~verifyApiKey(d.hashedApiKey, apiKey) THEN "UnauthorizedError"
  ELSE IF isExhausted(d.usedCount, d.maxUses) THEN "UsageLimitError"
  ELSE IF isExpired(d.expiresAt, t) THEN "ExpiredError"
  ELSE "ok"

\* Cache hit, lines 70-84: verify, then expiry, then usage.
hitCheck(d, apiKey, t) ==
  IF ~verifyApiKey(d.hashedApiKey, apiKey) THEN "UnauthorizedError"
  ELSE IF isExpired(d.expiresAt, t) THEN "ExpiredError"
  ELSE IF isExhausted(d.usedCount, d.maxUses) THEN "UsageLimitError"
  ELSE "ok"

\* Cache miss, lines 118-136: no candidate, or none that verifies.
\* A candidate loop that takes the first candidate without verifying it.
matching_Fingerprint(candidates, apiKey) == candidates

matching(candidates, apiKey) ==
  {k \in candidates : verifyApiKey(k.hashedApiKey, apiKey)}

\* A lookup that reports an absent fingerprint as an expired key.
findCheck_AbsentExpired(candidates, apiKey) ==
  IF candidates = {} THEN "ExpiredError"
  ELSE IF matching(candidates, apiKey) = {} THEN "UnauthorizedError"
  ELSE "ok"

findCheck(candidates, apiKey) ==
  IF candidates = {} THEN "NotFoundError"
  ELSE IF matching(candidates, apiKey) = {} THEN "UnauthorizedError"
  ELSE "ok"

\* Cache miss, lines 140-147: expiry, then usage.
missCheck(k, t) ==
  IF isExpired(k.expiresAt, t) THEN "ExpiredError"
  ELSE IF isExhausted(k.usedCount, k.maxUses) THEN "UsageLimitError"
  ELSE "ok"

Error(kind) == [kind |-> kind]

\* A rejected command reaching the route as a LockAcquisitionError.
Fault_AsLockError(from) == [kind |-> "LockAcquisitionError", from |-> from]

\* Anything else that is thrown reaches the route as INTERNAL_ERROR; where it
\* was thrown: at "acquire", inside the "try" block, or at "release".
Fault(from) == [kind |-> "InternalError", from |-> from]

\* A route that answers every outcome with status 200.
statusCode_Ok(e) == 200

\* What the route answers for an outcome: set.status and error.code. An
\* ApiError carries its own; anything else thrown is 500 INTERNAL_ERROR.
statusCode(e) ==
  CASE e.kind = "success" -> 200
    [] e.kind = "ValidationError" -> 400
    [] e.kind = "NotFoundError" -> 404
    [] e.kind = "DuplicateError" -> 409
    [] e.kind = "RateLimitError" -> 429
    [] e.kind = "LockAcquisitionError" -> 503
    [] e.kind = "UnauthorizedError" -> 401
    [] e.kind = "ExpiredError" -> 403
    [] e.kind = "UsageLimitError" -> 403
    [] OTHER -> 500

code(e) ==
  CASE e.kind = "success" -> ""
    [] e.kind = "ValidationError" -> "VALIDATION_ERROR"
    [] e.kind = "NotFoundError" -> "NOT_FOUND"
    [] e.kind = "DuplicateError" -> "DUPLICATE_ERROR"
    [] e.kind = "RateLimitError" -> "RATE_LIMIT_EXCEEDED"
    [] e.kind = "LockAcquisitionError" -> "LOCK_ACQUISITION_FAILED"
    [] e.kind = "UnauthorizedError" -> "UNAUTHORIZED"
    [] e.kind = "ExpiredError" -> "EXPIRED"
    [] e.kind = "UsageLimitError" -> "USAGE_LIMIT_EXCEEDED"
    [] OTHER -> "INTERNAL_ERROR"

\* No publishApiKey call made yet.
NoPublish ==
  [pc |-> "idle", request |-> Null, expiresAt |-> 0, apiKey |-> "",
   hashedApiKey |-> <<>>, result |-> Null]

Init ==
  /\ now = 0
  /\ store = [h \in Verifiers |-> Null]
  /\ cache = [s \in Secrets |-> Null]
  /\ lock = [s \in Secrets |-> NoLock]
  /\ rate = [i \in Identities |-> NoRate]
  /\ pc = [c \in Calls |-> "idle"]
  /\ req = [c \in Calls |-> Null]
  /\ lockValue = [c \in Calls |-> NoValue]
  /\ cachedData = [c \in Calls |-> Null]
  /\ data = [c \in Calls |-> Null]
  /\ validApiKey = [c \in Calls |-> Null]
  /\ updatedKey = [c \in Calls |-> Null]
  /\ pending = [c \in Calls |-> Null]
  /\ result = [c \in Calls |-> Null]
  /\ wrote = [c \in Calls |-> {}]
  /\ issued = {}
  /\ history = [i \in Identities |-> <<>>]
  /\ reported = [s \in Secrets |-> 0]
  /\ pub = NoPublish
  /\ log = {}

\* ------------------------------------------------------------ the clock
\* Time passes; Redis drops the keys whose TTL has run out.
\* Time passing on a server whose lock keys carry no expiry.
Tick_LocksKept ==
  /\ now < Horizon
  /\ now' = now + Step
  /\ cache' = [s \in Secrets |->
                IF Alive(cache[s], now') THEN cache[s] ELSE Null]
  /\ rate' = [i \in Identities |->
               IF rate[i].entries # <<>> /\ now' >= rate[i].ttlAt
                 THEN NoRate ELSE rate[i]]
  /\ UNCHANGED <<store, lock, pc, req, locals, pending, result, wrote, issued, history, reported, pub, log>>

Tick ==
  /\ now < Horizon
  /\ now' = now + Step
  /\ lock' = [s \in Secrets |->
               IF lock[s].value # NoValue /\ now' >= lock[s].ttlAt
                 THEN NoLock ELSE lock[s]]
  /\ cache' = [s \in Secrets |->
                IF Alive(cache[s], now') THEN cache[s] ELSE Null]
  /\ rate' = [i \in Identities |->
               IF rate[i].entries # <<>> /\ now' >= rate[i].ttlAt
                 THEN NoRate ELSE rate[i]]
  /\ UNCHANGED <<store, pc, req, locals, pending, result, wrote, issued, history, reported, pub, log>>

\* --------------------------------------------------- PublisherService
\* generateApiKey: 48 random bytes, a secret no earlier call returned.
generateApiKey == KeySecrets \ issued

\* publishApiKey: a fresh secret, its record created with usedCount 0.
publishApiKey(s, itemKey, permission, expiresAt, maxUses) ==
  /\ s \in generateApiKey
  /\ ~isExpired(expiresAt, now)
  /\ ~(maxUses <= 0)
  /\ store[hashApiKey(s)] = Null
  /\ store' = [store EXCEPT ![hashApiKey(s)] =
                 [searchableHash |-> generateSearchableHash(s),
                  hashedApiKey |-> hashApiKey(s),
                  itemKey |-> itemKey,
                  permission |-> permission,
                  expiresAt |-> expiresAt,
                  usedCount |-> 0,
                  maxUses |-> maxUses]]
  /\ issued' = issued \cup {s}
  /\ UNCHANGED <<now, cache, lock, rate, pc, req, locals, pending, result,
                 wrote, history, reported, pub, log>>

\* publishApiKey(request), step by step. Up to its first await the call
\* validates the request and generates the secret; random is what
\* generateApiKey may return. Then it awaits the hashing, the duplicate check
\* and the create, and the clock runs between them.
PublishRequests ==
  [itemKey : {"app://users/u1", "app://orders/o1", "mailto:u1",
              "invalid-item-key"},
   permission : {<<>>, <<"read">>, <<"read", "write">>},
   expiresAt : {toISOString(now), toISOString(now + Step),
                toISOString(Horizon + Step), Unparseable},
   maxUses : {0} \cup UsesChoices]

Publish(request, random) ==
  /\ pub.pc \in {"idle", "done"}
  /\ IF \/ ~validateItemKey(request.itemKey)
        \/ request.permission = <<>>
        \/ isNaN(request.expiresAt)
        \/ parseDate(request.expiresAt) <= now
        \/ request.maxUses <= 0
       THEN pub' = [NoPublish EXCEPT !.pc = "done",
                                     !.request = request,
                                     !.result = Error("ValidationError")]
       ELSE \E s \in random :
              pub' = [NoPublish EXCEPT !.pc = "hash",
                                       !.request = request,
                                       !.expiresAt = parseDate(request.expiresAt),
                                       !.apiKey = s]
  /\ UNCHANGED <<now, store, cache, lock, rate, pc, req, locals, pending,
                 result, wrote, issued, history, reported, log>>

\* hashedApiKey = await hashApiKey(originalApiKey)
PublishHash ==
  /\ pub.pc = "hash"
  /\ pub' = [pub EXCEPT !.pc = "exists",
                        !.hashedApiKey = hashApiKey(pub.apiKey)]
  /\ UNCHANGED <<now, store, cache, lock, rate, pc, req, locals, pending,
                 result, wrote, issued, history, reported, log>>

\* A duplicate check that never finds a document.
exists_Never(hashedApiKey) == FALSE

\* ApiKeyRepository.exists: count of documents with the verifier > 0.
exists(hashedApiKey) == store[hashedApiKey] # Null

\* exists = await repository.exists(hashedApiKey); DuplicateError if so.
PublishExists ==
  /\ pub.pc = "exists"
  /\ pub' = IF exists(pub.hashedApiKey)
              THEN [pub EXCEPT !.pc = "done",
                               !.result = Error("DuplicateError")]
              ELSE [pub EXCEPT !.pc = "create"]
  /\ UNCHANGED <<now, store, cache, lock, rate, pc, req, locals, pending,
                 result, wrote, issued, history, reported, log>>

\* A create that persists the searchable hash in place of the item key.
create_ItemKeyLost(d, t) ==
  [searchableHash |-> d.searchableHash,
   hashedApiKey |-> d.hashedApiKey,
   itemKey |-> d.searchableHash,
   permission |-> d.permission,
   publishedAt |-> t,
   expiresAt |-> d.expiresAt,
   usedCount |-> 0,
   maxUses |-> d.maxUses]

\* ApiKeyRepository.create: the document as persisted at instant t.
create(d, t) ==
  [searchableHash |-> d.searchableHash,
   hashedApiKey |-> d.hashedApiKey,
   itemKey |-> d.itemKey,
   permission |-> d.permission,
   publishedAt |-> t,
   expiresAt |-> d.expiresAt,
   usedCount |-> 0,
   maxUses |-> d.maxUses]

\* apiKey = await repository.create(...); the answer carries the secret. The
\* unique index on hashedApiKey rejects a second document with the verifier.
PublishCreate ==
  /\ pub.pc = "create"
  /\ LET apiKey == create([searchableHash |-> generateSearchableHash(pub.apiKey),
                           hashedApiKey |-> pub.hashedApiKey,
                           itemKey |-> pub.request.itemKey,
                           permission |-> pub.request.permission,
                           expiresAt |-> pub.expiresAt,
                           maxUses |-> pub.request.maxUses], now)
     IN IF store[pub.hashedApiKey] # Null
          THEN /\ pub' = [pub EXCEPT !.pc = "done", !.result = Fault("create")]
               /\ UNCHANGED <<store, issued>>
          ELSE /\ store' = [store EXCEPT ![pub.hashedApiKey] = apiKey]
               /\ issued' = issued \cup {pub.apiKey}
               /\ pub' = [pub EXCEPT
                            !.pc = "done",
                            !.result =
                              [kind |-> "success",
                               apiKey |-> pub.apiKey,
                               itemKey |-> apiKey.itemKey,
                               permission |-> apiKey.permission,
                               publishedAt |-> toISOString(apiKey.publishedAt),
                               expiresAt |-> toISOString(apiKey.expiresAt),
                               maxUses |-> apiKey.maxUses]]
  /\ UNCHANGED <<now, cache, lock, rate, pc, req, locals, pending, result,
                 wrote, history, reported, log>>

PublishStep ==
  \/ PublishHash
  \/ PublishExists
  \/ PublishCreate

\* ------------------------------------------------------- AdminService
\* revokeKey: expiresAt := new Date() on the store record; the cache is not
\* touched. An unknown verifier is NotFoundError and changes nothing.
\* A revocation that also resets the usage count of the record.
revokeKey_Reset(h) ==
  /\ store[h] # Null
  /\ store' = [store EXCEPT ![h].expiresAt = now, ![h].usedCount = 0]
  /\ UNCHANGED <<now, cache, lock, rate, pc, req, locals, pending, result,
                 wrote, issued, history, reported, pub, log>>

revokeKey(h) ==
  /\ store[h] # Null
  /\ store' = [store EXCEPT ![h].expiresAt = now]
  /\ UNCHANGED <<now, cache, lock, rate, pc, req, locals, pending, result,
                 wrote, issued, history, reported, pub, log>>

\* cleanupExpired / deleteExpired: deleteMany where expiresAt < new Date().
deleteExpired ==
  /\ \E h \in Verifiers : store[h] # Null /\ store[h].expiresAt < now
  /\ store' = [h \in Verifiers |->
                IF store[h] # Null /\ store[h].expiresAt < now
                  THEN Null ELSE store[h]]
  /\ UNCHANGED <<now, cache, lock, rate, pc, req, locals, pending, result,
                 wrote, issued, history, reported, pub, log>>

\* --------------------------------------------------------- ApiKeyCache
\* get: redis.get, JSON.parse, expiresAt back to a Date; null when absent.
cacheGet(entry) ==
  IF entry = Null THEN Null
  ELSE [hashedApiKey |-> entry.hashedApiKey,
        itemKey |-> entry.itemKey,
        permission |-> entry.permission,
        expiresAt |-> parseDate(entry.expiresAt),
        usedCount |-> entry.usedCount,
        maxUses |-> entry.maxUses]

\* A set that caches the count read before the store increment.
cacheSet_CountBefore(d, t) ==
  [hashedApiKey |-> d.hashedApiKey,
   itemKey |-> d.itemKey,
   permission |-> d.permission,
   expiresAt |-> toISOString(d.expiresAt),
   usedCount |-> d.usedCount - 1,
   maxUses |-> d.maxUses,
   ttlAt |-> t + cacheTtl * 1000]

\* set: JSON.stringify with expiresAt as ISO text, SETEX with the cache TTL.
cacheSet(d, t) ==
  [hashedApiKey |-> d.hashedApiKey,
   itemKey |-> d.itemKey,
   permission |-> d.permission,
   expiresAt |-> toISOString(d.expiresAt),
   usedCount |-> d.usedCount,
   maxUses |-> d.maxUses,
   ttlAt |-> t + cacheTtl * 1000]

\* ----------------------------------------------------- ApiKeyRepository
\* findBySearchableHash: findMany where searchableHash matches.
findBySearchableHash(searchableHash) ==
  {store[h] : h \in {v \in Verifiers :
      store[v] # Null /\ store[v].searchableHash = searchableHash}}

\* An increment that counts one use twice.
incrementUsage_Twice(record) == [record EXCEPT !.usedCount = @ + 2]

\* incrementUsage: update ... usedCount: { increment: 1 }, atomic in the store.
incrementUsage(record) == [record EXCEPT !.usedCount = @ + 1]

\* ------------------------------------------- the route POST /keys/validate
\* A response that reports the usage limit after the use was counted.
Success_AsUsageLimit(k, usedCount) == Error("UsageLimitError")

Success(k, usedCount) ==
  [kind |-> "success",
   itemKey |-> k.itemKey,
   permission |-> k.permission,
   expiresAt |-> toISOString(k.expiresAt),
   usedCount |-> usedCount,
   maxUses |-> k.maxUses]

\* The locals of one validateApiKey call are dead once its outcome is fixed.
NoLocals(f, c) == [f EXCEPT ![c] = Null]

\* rateLimiter.checkLimit(identifier, maxRequests, windowMs) is called for one
\* identity at the current instant; the outcome is appended to the history.
CheckLimit(ip) ==
  /\ Len(history[ip]) < MaxEntries
  /\ LET r == checkLimit(rate[ip], rateLimitMax, rateLimitWindow, now)
     IN /\ rate' = [rate EXCEPT ![ip] = r.key]
        /\ history' = [history EXCEPT ![ip] =
                         Append(@, [at |-> now, admitted |-> r.admitted])]
  /\ UNCHANGED <<now, store, cache, lock, pc, req, locals, pending, result,
                 wrote, issued, reported, pub, log>>

\* ------------------------------------ ValidatorService.validateApiKey
\* What the store holds for a secret when a request for it arrives; kept with
\* the request so that its answer can be compared with it.
recordExpired(apiKey) ==
  /\ store[hashApiKey(apiKey)] # Null
  /\ store[hashApiKey(apiKey)].expiresAt <= now

recordExhausted(apiKey) ==
  /\ store[hashApiKey(apiKey)] # Null
  /\ store[hashApiKey(apiKey)].usedCount >= store[hashApiKey(apiKey)].maxUses

\* validateApiKey(request) is entered by a free task; what its previous
\* request left behind is reset.
Validate(c, apiKey) ==
  /\ pc[c] \in {"idle", "done"}
  /\ req' = [req EXCEPT ![c] =
               [apiKey |-> apiKey,
                expired |-> recordExpired(apiKey),
                exhausted |-> recordExhausted(apiKey)]]
  /\ lockValue' = [lockValue EXCEPT ![c] = NoValue]
  /\ pending' = [pending EXCEPT ![c] = Null]
  /\ result' = [result EXCEPT ![c] = Null]
  /\ wrote' = [wrote EXCEPT ![c] = {}]
  /\ pc' = [pc EXCEPT ![c] = "acquire"]
  /\ UNCHANGED <<now, store, cache, lock, rate, cachedData, data,
                 validApiKey, updatedKey, issued, history, reported, pub, log>>

\* Step 1: lock.acquire(`validate:${apiKey}`, 10000); null is
\* LockAcquisitionError, thrown before the try block.
\* An acquire whose lock key does not depend on the secret: every
\* validation takes the same lock.
Acquire_OneLock(c) ==
  /\ pc[c] = "acquire"
  /\ LET g == CHOOSE s \in Secrets : TRUE
         a == acquireSet(lock[g], generateLockValue(c, now), lockTtl, now)
     IN /\ lock' = [lock EXCEPT ![g] = a.lock]
        /\ IF a.ok
             THEN /\ lockValue' = [lockValue EXCEPT ![c] =
                                     generateLockValue(c, now)]
                  /\ pc' = [pc EXCEPT ![c] = "cacheGet"]
                  /\ UNCHANGED result
             ELSE /\ pc' = [pc EXCEPT ![c] = "done"]
                  /\ result' = [result EXCEPT ![c] =
                                  Error("LockAcquisitionError")]
                  /\ UNCHANGED lockValue
  /\ UNCHANGED <<now, store, cache, rate, req, cachedData, data, validApiKey,
                 updatedKey, pending, wrote, issued, history, reported, pub>>
  /\ log' = log \cup lockLog(lockKeyOf(req[c].apiKey))

Acquire(c) ==
  /\ pc[c] = "acquire"
  /\ LET a == acquireSet(lock[req[c].apiKey], generateLockValue(c, now),
                         lockTtl, now)
     IN /\ lock' = [lock EXCEPT ![req[c].apiKey] = a.lock]
        /\ IF a.ok
             THEN /\ lockValue' = [lockValue EXCEPT ![c] =
                                     generateLockValue(c, now)]
                  /\ pc' = [pc EXCEPT ![c] = "cacheGet"]
                  /\ UNCHANGED result
             ELSE /\ pc' = [pc EXCEPT ![c] = "done"]
                  /\ result' = [result EXCEPT ![c] =
                                  Error("LockAcquisitionError")]
                  /\ UNCHANGED lockValue
  /\ UNCHANGED <<now, store, cache, rate, req, cachedData, data, validApiKey,
                 updatedKey, pending, wrote, issued, history, reported, pub>>
  /\ log' = log \cup lockLog(lockKeyOf(req[c].apiKey))

\* Step 2: cachedData = await this.cache.get(apiKey); on a hit verifyApiKey,
\* the expiry test and the usage test follow without touching shared state.
CacheGet(c) ==
  /\ pc[c] = "cacheGet"
  /\ LET d == cacheGet(cache[req[c].apiKey])
         outcome == IF d = Null THEN "miss"
                    ELSE hitCheck(d, req[c].apiKey, now)
     IN CASE outcome = "miss" ->
               /\ pc' = [pc EXCEPT ![c] = "find"]
               /\ UNCHANGED <<cachedData, pending>>
          [] outcome = "ok" ->
               /\ pc' = [pc EXCEPT ![c] = "cacheIncGet"]
               /\ cachedData' = [cachedData EXCEPT ![c] = d]
               /\ UNCHANGED pending
          [] OTHER ->
               /\ pc' = [pc EXCEPT ![c] = "release"]
               /\ pending' = [pending EXCEPT ![c] = Error(outcome)]
               /\ UNCHANGED cachedData
  /\ UNCHANGED <<now, store, cache, lock, rate, req, lockValue, data,
                 validApiKey, updatedKey, result, wrote, issued, history, reported, pub>>
  /\ log' = log \cup cacheLog(req[c].apiKey)

\* cache.incrementUsage, first half: data = await this.get(apiKey); a
\* missing entry returns null and leaves the cache alone.
CacheIncGet(c) ==
  /\ pc[c] = "cacheIncGet"
  /\ data' = [data EXCEPT ![c] = cacheGet(cache[req[c].apiKey])]
  /\ pc' = [pc EXCEPT ![c] =
              IF cacheGet(cache[req[c].apiKey]) # Null THEN "cacheIncSet"
              ELSE "hitStoreInc"]
  /\ UNCHANGED <<now, store, cache, lock, rate, req, lockValue, cachedData,
                 validApiKey, updatedKey, pending, result, wrote, issued, history, reported, pub>>
  /\ log' = log \cup cacheLog(req[c].apiKey)

\* cache.incrementUsage, second half: data.usedCount += 1; this.set(...)
CacheIncSet(c) ==
  /\ pc[c] = "cacheIncSet"
  /\ cache' = [cache EXCEPT ![req[c].apiKey] =
                 cacheSet(incrementUsage(data[c]), now)]
  /\ data' = NoLocals(data, c)
  /\ wrote' = [wrote EXCEPT ![c] = @ \cup {"cache"}]
  /\ pc' = [pc EXCEPT ![c] = "hitStoreInc"]
  /\ UNCHANGED <<now, store, lock, rate, req, lockValue, cachedData,
                 validApiKey, updatedKey, pending, result, issued, history, reported, pub>>
  /\ log' = log \cup cacheLog(req[c].apiKey)

\* repository.incrementUsage(cachedData.hashedApiKey), then the response
\* with cachedData.usedCount + 1. The update throws when the record is gone.
HitStoreInc(c) ==
  /\ pc[c] = "hitStoreInc"
  /\ LET h == cachedData[c].hashedApiKey
     IN IF store[h] # Null
          THEN /\ store' = [store EXCEPT ![h] = incrementUsage(store[h])]
               /\ wrote' = [wrote EXCEPT ![c] = @ \cup {"store"}]
               /\ pending' = [pending EXCEPT ![c] =
                     Success(cachedData[c], cachedData[c].usedCount + 1)]
          ELSE /\ pending' = [pending EXCEPT ![c] = Fault("try")]
               /\ UNCHANGED <<store, wrote>>
  /\ cachedData' = NoLocals(cachedData, c)
  /\ pc' = [pc EXCEPT ![c] = "release"]
  /\ UNCHANGED <<now, cache, lock, rate, req, lockValue, data, validApiKey,
                 updatedKey, result, issued, history, reported, pub, log>>

\* Steps 3-5: findBySearchableHash, the verification loop, the expiry test
\* and the usage test on the verified record.
findOutcome(apiKey, t) ==
  LET candidates == findBySearchableHash(generateSearchableHash(apiKey))
      found == findCheck(candidates, apiKey)
      k == CHOOSE k \in matching(candidates, apiKey) : TRUE
  IN IF found = "ok" THEN missCheck(k, t) ELSE found

Find(c) ==
  /\ pc[c] = "find"
  /\ LET candidates ==
           findBySearchableHash(generateSearchableHash(req[c].apiKey))
         k == CHOOSE k \in matching(candidates, req[c].apiKey) : TRUE
         outcome == findOutcome(req[c].apiKey, now)
     IN IF outcome = "ok"
          THEN /\ validApiKey' = [validApiKey EXCEPT ![c] = k]
               /\ pc' = [pc EXCEPT ![c] = "missStoreInc"]
               /\ UNCHANGED pending
          ELSE /\ pending' = [pending EXCEPT ![c] = Error(outcome)]
               /\ pc' = [pc EXCEPT ![c] = "release"]
               /\ UNCHANGED validApiKey
  /\ UNCHANGED <<now, store, cache, lock, rate, req, lockValue, cachedData,
                 data, updatedKey, result, wrote, issued, history, reported, pub, log>>

\* Step 6: updatedKey = await repository.incrementUsage(hashedApiKey)
MissStoreInc(c) ==
  /\ pc[c] = "missStoreInc"
  /\ LET h == validApiKey[c].hashedApiKey
     IN IF store[h] # Null
          THEN /\ store' = [store EXCEPT ![h] = incrementUsage(store[h])]
               /\ updatedKey' = [updatedKey EXCEPT ![c] =
                                   incrementUsage(store[h])]
               /\ wrote' = [wrote EXCEPT ![c] = @ \cup {"store"}]
               /\ pc' = [pc EXCEPT ![c] = "cacheSet"]
               /\ UNCHANGED <<pending, validApiKey>>
          ELSE /\ pending' = [pending EXCEPT ![c] = Fault("try")]
               /\ pc' = [pc EXCEPT ![c] = "release"]
               /\ validApiKey' = NoLocals(validApiKey, c)
               /\ UNCHANGED <<store, updatedKey, wrote>>
  /\ UNCHANGED <<now, cache, lock, rate, req, lockValue, cachedData, data,
                 result, issued, history, reported, pub, log>>

\* Step 7: cache.set with updatedKey.usedCount, then the response.
CacheSet(c) ==
  /\ pc[c] = "cacheSet"
  /\ cache' = [cache EXCEPT ![req[c].apiKey] =
                 cacheSet([validApiKey[c] EXCEPT
                             !.usedCount = updatedKey[c].usedCount], now)]
  /\ wrote' = [wrote EXCEPT ![c] = @ \cup {"cache"}]
  /\ pending' = [pending EXCEPT ![c] =
                   Success(validApiKey[c], updatedKey[c].usedCount)]
  /\ validApiKey' = NoLocals(validApiKey, c)
  /\ updatedKey' = NoLocals(updatedKey, c)
  /\ pc' = [pc EXCEPT ![c] = "release"]
  /\ UNCHANGED <<now, store, lock, rate, req, lockValue, cachedData, data,
                 result, issued, history, reported, pub>>
  /\ log' = log \cup cacheLog(req[c].apiKey)

\* Step 8, finally: lock.release(lockKey, lockValue); then the return value
\* or the thrown error reaches the route.
Release(c) ==
  /\ pc[c] = "release"
  /\ lock' = [lock EXCEPT ![req[c].apiKey] =
                releaseScript(lock[req[c].apiKey], lockValue[c]).lock]
  /\ result' = [result EXCEPT ![c] = pending[c]]
  /\ pending' = [pending EXCEPT ![c] = Null]
  /\ pc' = [pc EXCEPT ![c] = "done"]
  /\ reported' = IF pending[c].kind = "success"
                   THEN [reported EXCEPT ![req[c].apiKey] = pending[c].usedCount]
                   ELSE reported
  /\ UNCHANGED <<now, store, cache, rate, req, locals, wrote, issued, history, pub>>
  /\ log' = log \cup lockLog(lockKeyOf(req[c].apiKey))

\* A Redis or store command rejects (transport error). Before the try block
\* the error goes straight to the route; inside it, through finally; in
\* finally itself it replaces the pending outcome and the lock stays.
InTry == {"cacheGet", "cacheIncGet", "cacheIncSet", "hitStoreInc", "find",
          "missStoreInc", "cacheSet"}

TransportFault(c) ==
  /\ pc[c] \in {"acquire", "release"} \cup InTry
  /\ IF pc[c] \in InTry
       THEN /\ pending' = [pending EXCEPT ![c] = Fault("try")]
            /\ pc' = [pc EXCEPT ![c] = "release"]
            /\ UNCHANGED result
       ELSE /\ result' = [result EXCEPT ![c] = Fault(pc[c])]
            /\ pending' = [pending EXCEPT ![c] = Null]
            /\ pc' = [pc EXCEPT ![c] = "done"]
  /\ cachedData' = NoLocals(cachedData, c)
  /\ data' = NoLocals(data, c)
  /\ validApiKey' = NoLocals(validApiKey, c)
  /\ updatedKey' = NoLocals(updatedKey, c)
  /\ UNCHANGED <<now, store, cache, lock, rate, req, lockValue, wrote, issued, history, reported, pub>>
  /\ log' = log \cup (IF pc[c] \in {"acquire", "release"}
                          THEN lockLog(lockKeyOf(req[c].apiKey))
                        ELSE IF pc[c] \in {"cacheIncSet", "cacheSet"}
                          THEN cacheLog(req[c].apiKey)
                        ELSE {})

\* ------------------------------------------------------------------ Next
ExpiryChoices == {now + Step, Horizon + Step}

\* One step of a validateApiKey call.
ValidateStep(c) ==
  \/ Acquire(c)
  \/ CacheGet(c)
  \/ CacheIncGet(c)
  \/ CacheIncSet(c)
  \/ HitStoreInc(c)
  \/ Find(c)
  \/ MissStoreInc(c)
  \/ CacheSet(c)
  \/ Release(c)

\* The service with Redis and the store answering every command: publisher,
\* admin and two request tasks presenting issued and unissued secrets.
Next ==
  \/ Tick
  \/ \E s \in Secrets, i \in ItemKeys, p \in PermissionLists,
        e \in ExpiryChoices, m \in UsesChoices : publishApiKey(s, i, p, e, m)
  \/ \E h \in Verifiers : revokeKey(h)
  \/ deleteExpired
  \/ \E c \in Calls, s \in Secrets : Validate(c, s)
  \/ \E c \in Calls : Acquire(c)
  \/ \E c \in Calls : CacheGet(c)
  \/ \E c \in Calls : CacheIncGet(c)
  \/ \E c \in Calls : CacheIncSet(c)
  \/ \E c \in Calls : HitStoreInc(c)
  \/ \E c \in Calls : Find(c)
  \/ \E c \in Calls : MissStoreInc(c)
  \/ \E c \in Calls : CacheSet(c)
  \/ \E c \in Calls : Release(c)

Spec == Init /\ [][Next]_vars

\* Publishing and validating while commands to Redis or the store may fail;
\* the request tasks present the secrets the publisher issues.
NextFault ==
  \/ Tick
  \/ \E s \in Secrets, i \in ItemKeys, p \in PermissionLists,
        e \in ExpiryChoices, m \in UsesChoices : publishApiKey(s, i, p, e, m)
  \/ \E c \in Calls, s \in KeySecrets : Validate(c, s)
  \/ \E c \in Calls : ValidateStep(c)
  \/ \E c \in Calls : TransportFault(c)

SpecFault == Init /\ [][NextFault]_vars

\* A burst: a key published with maxUses equal to the number of request
\* tasks, and every task validating that key once.
BurstSecret == CHOOSE s \in KeySecrets : TRUE

InitBurst ==
  /\ now = 0
  /\ store = [h \in Verifiers |->
               IF h = hashApiKey(BurstSecret)
                 THEN [searchableHash |-> generateSearchableHash(BurstSecret),
                       hashedApiKey |-> h,
                       itemKey |-> CHOOSE i \in ItemKeys : TRUE,
                       permission |-> CHOOSE p \in PermissionLists : TRUE,
                       expiresAt |-> Horizon + Step,
                       usedCount |-> 0,
                       maxUses |-> Cardinality(Calls)]
                 ELSE Null]
  /\ cache = [s \in Secrets |-> Null]
  /\ lock = [s \in Secrets |-> NoLock]
  /\ rate = [i \in Identities |-> NoRate]
  /\ pc = [c \in Calls |-> "idle"]
  /\ req = [c \in Calls |-> Null]
  /\ lockValue = [c \in Calls |-> NoValue]
  /\ cachedData = [c \in Calls |-> Null]
  /\ data = [c \in Calls |-> Null]
  /\ validApiKey = [c \in Calls |-> Null]
  /\ updatedKey = [c \in Calls |-> Null]
  /\ pending = [c \in Calls |-> Null]
  /\ result = [c \in Calls |-> Null]
  /\ wrote = [c \in Calls |-> {}]
  /\ issued = {BurstSecret}
  /\ history = [i \in Identities |-> <<>>]
  /\ reported = [s \in Secrets |-> 0]
  /\ pub = NoPublish
  /\ log = {}

\* ------------------------------------------- the route POST /keys/validate
\* A route that takes the lock before it asks the rate limiter.
PostValidate_LockFirst(c, ip, apiKey) ==
  /\ pc[c] \in {"idle", "done"}
  /\ Len(history[ip]) < MaxEntries
  /\ LET r == checkLimit(rate[ip], rateLimitMax, rateLimitWindow, now)
         a == acquireSet(lock[apiKey], generateLockValue(c, now), lockTtl, now)
     IN /\ rate' = [rate EXCEPT ![ip] = r.key]
        /\ history' = [history EXCEPT ![ip] =
                         Append(@, [at |-> now, admitted |-> r.admitted])]
        /\ lock' = [lock EXCEPT ![apiKey] = a.lock]
        /\ lockValue' = [lockValue EXCEPT ![c] =
                           IF a.ok THEN generateLockValue(c, now) ELSE NoValue]
        /\ IF r.admitted /\ a.ok
             THEN /\ pc' = [pc EXCEPT ![c] = "cacheGet"]
                  /\ result' = [result EXCEPT ![c] = Null]
             ELSE /\ pc' = [pc EXCEPT ![c] = "done"]
                  /\ result' = [result EXCEPT ![c] =
                                  IF r.admitted
                                    THEN Error("LockAcquisitionError")
                                    ELSE Error("RateLimitError")]
  /\ req' = [req EXCEPT ![c] =
               [apiKey |-> apiKey,
                expired |-> recordExpired(apiKey),
                exhausted |-> recordExhausted(apiKey)]]
  /\ pending' = [pending EXCEPT ![c] = Null]
  /\ wrote' = [wrote EXCEPT ![c] = {}]
  /\ UNCHANGED <<now, store, cache, cachedData, data, validApiKey, updatedKey,
                 issued, reported, pub, log>>

\* The handler, lines 56-64: rateLimiter.checkLimit(getClientIp(request), ...)
\* is awaited first; RateLimitError goes to the catch block and the request
\* ends, otherwise validatorService.validateApiKey(body) is entered.
PostValidate(c, ip, apiKey) ==
  /\ pc[c] \in {"idle", "done"}
  /\ Len(history[ip]) < MaxEntries
  /\ LET r == checkLimit(rate[ip], rateLimitMax, rateLimitWindow, now)
     IN /\ rate' = [rate EXCEPT ![ip] = r.key]
        /\ history' = [history EXCEPT ![ip] =
                         Append(@, [at |-> now, admitted |-> r.admitted])]
        /\ IF r.admitted
             THEN /\ pc' = [pc EXCEPT ![c] = "acquire"]
                  /\ result' = [result EXCEPT ![c] = Null]
             ELSE /\ pc' = [pc EXCEPT ![c] = "done"]
                  /\ result' = [result EXCEPT ![c] = Error("RateLimitError")]
  /\ req' = [req EXCEPT ![c] =
               [apiKey |-> apiKey,
                expired |-> recordExpired(apiKey),
                exhausted |-> recordExhausted(apiKey)]]
  /\ lockValue' = [lockValue EXCEPT ![c] = NoValue]
  /\ pending' = [pending EXCEPT ![c] = Null]
  /\ wrote' = [wrote EXCEPT ![c] = {}]
  /\ UNCHANGED <<now, store, cache, lock, cachedData, data, validApiKey,
                 updatedKey, issued, reported, pub, log>>

\* The validate route as one client sees it: every request passes the rate
\* limiter under the client's identity before validateApiKey is entered.
RouteClient == CHOOSE ip \in Identities : TRUE

NextRoute ==
  \/ Tick
  \/ \E s \in Secrets, i \in ItemKeys, p \in PermissionLists,
        e \in ExpiryChoices, m \in UsesChoices : publishApiKey(s, i, p, e, m)
  \/ \E c \in Calls, s \in Secrets : PostValidate(c, RouteClient, s)
  \/ \E c \in Calls : ValidateStep(c)

SpecRoute == Init /\ [][NextRoute]_vars

ValidateOnce(c) == pc[c] = "idle" /\ Validate(c, BurstSecret)

NextBurst ==
  \/ Tick
  \/ \E c \in Calls : ValidateOnce(c)
  \/ \E c \in Calls : ValidateStep(c)

SpecBurst == InitBurst /\ [][NextBurst]_vars

\* Sequential use: a validation starts only when no other is in progress.
ValidateAlone(c, apiKey) ==
  /\ \A d \in Calls : pc[d] \in {"idle", "done"}
  /\ Validate(c, apiKey)

NextSeq ==
  \/ Tick
  \/ \E s \in Secrets, i \in ItemKeys, p \in PermissionLists,
        e \in ExpiryChoices, m \in UsesChoices : publishApiKey(s, i, p, e, m)
  \/ \E c \in Calls, s \in Secrets : ValidateAlone(c, s)
  \/ \E c \in Calls : ValidateStep(c)

SpecSeq == Init /\ [][NextSeq]_vars

\* Sequential use with administration: publisher, admin and validations,
\* each operation starting only when no validation is in progress.
Quiet == \A d \in Calls : pc[d] \in {"idle", "done"}

NextSeqAdmin ==
  \/ Tick
  \/ \E s \in Secrets, i \in ItemKeys, p \in PermissionLists,
        e \in ExpiryChoices, m \in UsesChoices : publishApiKey(s, i, p, e, m)
  \/ \E h \in Verifiers : Quiet /\ revokeKey(h)
  \/ Quiet /\ deleteExpired
  \/ \E c \in Calls, s \in Secrets : ValidateAlone(c, s)
  \/ \E c \in Calls : ValidateStep(c)

SpecSeqAdmin == Init /\ [][NextSeqAdmin]_vars

\* Issuance and use: publishApiKey calls step by step as time passes until
\* one has returned a secret, then validations of that secret, one at a time.
Published == pub.pc = "done" /\ pub.result.kind = "success"

NextPublish ==
  \/ Tick
  \/ \E r \in PublishRequests : issued = {} /\ Publish(r, generateApiKey)
  \/ PublishStep
  \/ \E c \in Calls : Published /\ ValidateAlone(c, pub.result.apiKey)
  \/ \E c \in Calls : ValidateStep(c)

SpecPublish == Init /\ [][NextPublish]_vars

\* Issuance where the generator may return a secret it returned before.
NextCollide ==
  \/ Tick
  \/ \E r \in PublishRequests : Publish(r, KeySecrets)
  \/ PublishStep

SpecCollide == Init /\ [][NextCollide]_vars

\* The rate limiter on its own: checkLimit calls of several identities as
\* time passes.
NextRate ==
  \/ Tick
  \/ \E ip \in Identities : CheckLimit(ip)

SpecRate == Init /\ [][NextRate]_vars

\* ============================================================ properties
\* A call is between its successful lock acquisition and its lock release.
Holding(c) == pc[c] \in InTry \cup {"release"}

Key(c) == hashApiKey(req[c].apiKey)

Ended(c, kind) == pc[c] = "done" /\ result[c].kind = kind

\* C1. Mutual exclusion per secret: of the validateApiKey calls presenting the
\* same secret, at most one at a time is between its successful lock
\* acquisition and its lock release. Run under Spec, where the clock may pass
\* the lock's 10-second TTL while its holder is still at work.
C1_MutualExclusion ==
  \A c \in Calls, d \in Calls :
    (c # d /\ Holding(c) /\ Holding(d)) => req[c].apiKey # req[d].apiKey

\* C2. A burst of N validateApiKey calls for one secret whose record starts
\* with usedCount = 0 and maxUses = N, once every call has ended, leaves the
\* store's usedCount equal to N. Run under SpecBurst.
BurstEnded == \A c \in Calls : pc[c] = "done"

BurstCount == store[hashApiKey(BurstSecret)].usedCount

C2_BurstCountsAll == BurstEnded => BurstCount = Cardinality(Calls)

\* C2, as the code has it: the lock is one non-blocking attempt, so a call
\* that finds it held ends with LockAcquisitionError and counts nothing. Once
\* every call of the burst has ended, usedCount is the number of calls that
\* performed the store increment: every successful call is among them, no
\* call rejected at the lock is, and the count never exceeds N.
C2_BurstCountsIncrements ==
  BurstEnded =>
    /\ BurstCount = Cardinality({c \in Calls : "store" \in wrote[c]})
    /\ BurstCount <= Cardinality(Calls)
    /\ \A c \in Calls :
         /\ result[c].kind = "success" => "store" \in wrote[c]
         /\ result[c].kind = "LockAcquisitionError" => wrote[c] = {}

\* The burst has ended with one call counted and another turned away at the
\* lock: an under-count.
C2_Witness ==
  /\ BurstEnded
  /\ BurstCount = 1
  /\ \E c \in Calls, d \in Calls :
       /\ result[c].kind = "success"
       /\ result[d].kind = "LockAcquisitionError"

\* C3. Exhaustion: a validateApiKey call that begins when the store record of
\* its secret already has usedCount >= maxUses never returns success and
\* increments neither the store's nor the cache's usedCount. (Which error it
\* ends with is left open here, so that only a success or an increment
\* breaks the statement.) Run under Spec.
C3_Exhaustion ==
  \A c \in Calls :
    (pc[c] # "idle" /\ req[c].exhausted) =>
      /\ wrote[c] = {}
      /\ pending[c].kind # "success"
      /\ result[c].kind # "success"

\* C4. Cache staleness cannot grant access: no validateApiKey call returns
\* success for a secret whose store record had expiresAt <= now when the call
\* began, revoked records included. Run under Spec.
C4_NoStaleAccess ==
  \A c \in Calls :
    (pc[c] # "idle" /\ req[c].expired) => result[c].kind # "success"

\* C5. Guaranteed release: when a validateApiKey call that acquired the lock
\* has ended on any of its exit paths - success, UnauthorizedError,
\* NotFoundError, ExpiredError, UsageLimitError, or a store or cache command
\* that threw inside the try block - the lock key no longer holds that call's
\* token. (The release command itself failing is the one ending that is not
\* among these paths.) Run under SpecFault.
ReleaseFailed(c) ==
  result[c].kind = "InternalError" /\ result[c].from = "release"

C5_GuaranteedRelease ==
  \A c \in Calls :
    (pc[c] = "done" /\ lockValue[c] # NoValue /\ ~ReleaseFailed(c)) =>
      lock[req[c].apiKey].value # lockValue[c]

\* A call whose store or cache command threw has ended, after its lock had
\* run out and been taken by another call that is still at work: the key
\* holds the other call's token.
C5_Witness ==
  \E c \in Calls, d \in Calls :
    /\ c # d
    /\ pc[c] = "done" /\ lockValue[c] # NoValue
    /\ result[c].kind = "InternalError" /\ result[c].from = "try"
    /\ Holding(d) /\ req[d].apiKey = req[c].apiKey
    /\ lock[req[d].apiKey].value = lockValue[d]

\* C6. Monotonic usage: for a key that is unexpired and below its limit when
\* the call begins, the store increment of a validateApiKey call raises the
\* store's usedCount by exactly 1; when a cache-hit call has succeeded the
\* cache entry holds a usedCount exactly 1 greater than the one the call read
\* at its start, and when a cache-miss call has succeeded the cache entry
\* holds the post-increment count the store returned to it. Run under Spec.
C6_MonotonicUsage ==
  [][\A c \in Calls :
       (pc[c] # "idle" /\ ~req[c].expired /\ ~req[c].exhausted) =>
         /\ ("store" \in wrote'[c] /\ "store" \notin wrote[c]) =>
              store'[Key(c)].usedCount = store[Key(c)].usedCount + 1
         /\ (pc[c] = "hitStoreInc" /\ pending'[c].kind = "success") =>
              /\ cache'[req[c].apiKey] # Null
              /\ cache'[req[c].apiKey].usedCount = cachedData[c].usedCount + 1
         /\ (pc[c] = "cacheSet" /\ pending'[c].kind = "success") =>
              /\ cache'[req[c].apiKey] # Null
              /\ cache'[req[c].apiKey].usedCount = updatedKey[c].usedCount
    ]_vars

\* C7. Expiry precedence: on the cache-hit and on the cache-miss path, a call
\* whose verified record is expired when it is checked ends with ExpiredError,
\* whether or not the record is also exhausted; UsageLimitError is never the
\* answer for an expired record. Run under Spec.
HitRecordExpired(c) ==
  /\ pc[c] = "cacheGet"
  /\ cache[req[c].apiKey] # Null
  /\ verifyApiKey(cache[req[c].apiKey].hashedApiKey, req[c].apiKey)
  /\ isExpired(parseDate(cache[req[c].apiKey].expiresAt), now)

MissRecordExpired(c) ==
  /\ pc[c] = "find"
  /\ \E k \in matching(findBySearchableHash(
                         generateSearchableHash(req[c].apiKey)), req[c].apiKey) :
       isExpired(k.expiresAt, now)

C7_ExpiryPrecedence ==
  [][\A c \in Calls :
       ((HitRecordExpired(c) \/ MissRecordExpired(c)) /\ pc'[c] # pc[c]) =>
         pending'[c].kind = "ExpiredError"
    ]_vars

\* A cache hit on an entry that is both expired and exhausted has been
\* answered with ExpiredError and is on its way out.
C7_Witness ==
  \E c \in Calls :
    /\ pc[c] = "release"
    /\ pending[c].kind = "ExpiredError"
    /\ cache[req[c].apiKey] # Null
    /\ isExpired(parseDate(cache[req[c].apiKey].expiresAt), now)
    /\ isExhausted(cache[req[c].apiKey].usedCount,
                   cache[req[c].apiKey].maxUses)

\* C8. A validateApiKey call that ends with ExpiredError or UsageLimitError
\* has written neither the store record's usedCount nor the cache entry.
\* Run under Spec.
C8_RejectionWritesNothing ==
  \A c \in Calls :
    (pending[c].kind \in {"ExpiredError", "UsageLimitError"}
       \/ result[c].kind \in {"ExpiredError", "UsageLimitError"}) =>
      wrote[c] = {}

\* A call on an exhausted, unexpired key has ended with UsageLimitError; the
\* store record and the cache entry both stand at the limit.
C8_Witness ==
  \E c \in Calls :
    /\ Ended(c, "UsageLimitError")
    /\ store[Key(c)] # Null
    /\ store[Key(c)].usedCount = store[Key(c)].maxUses
    /\ cache[req[c].apiKey] # Null
    /\ cache[req[c].apiKey].usedCount = store[Key(c)].usedCount

\* C9. Idempotent rejection: every ended validateApiKey call for a secret
\* that was never issued ended with NotFoundError or UnauthorizedError.
\* Run under Spec.
Unissued(c) == pc[c] # "idle" /\ req[c].apiKey \notin issued

C10_RateCeiling ==
  \A ip \in Identities :
    LET h == history[ip]
    IN /\ \A i \in 1..Len(h) : i <= rateLimitMax => h[i].admitted
       /\ (Len(h) > rateLimitMax
             /\ h[rateLimitMax + 1].at - h[1].at < rateLimitWindow) =>
            ~h[rateLimitMax + 1].admitted
       /\ \A i \in 2..Len(h) :
            h[i].at - h[i - 1].at >= rateLimitWindow => h[i].admitted

\* An identity was admitted rateLimitMax times, rejected on the next call
\* within the window, and admitted again a full window later.
C10_Witness ==
  \E ip \in Identities :
    LET h == history[ip]
    IN /\ Len(h) = rateLimitMax + 2
       /\ \A i \in 1..rateLimitMax : h[i].admitted
       /\ ~h[rateLimitMax + 1].admitted
       /\ h[rateLimitMax + 1].at - h[1].at < rateLimitWindow
       /\ h[rateLimitMax + 2].at - h[rateLimitMax + 1].at >= rateLimitWindow
       /\ h[rateLimitMax + 2].admitted

\* C11. On every validate request the rate check runs before lock
\* acquisition: validateApiKey is entered only in the step of an admitted
\* checkLimit call, and a request answered RateLimitError has acquired no
\* lock and written nothing, its rejection leaving lock, cache and store as
\* they were. Run under SpecRoute.
C11_RateCheckFirst ==
  [][\A c \in Calls :
       /\ (pc'[c] = "acquire" /\ pc[c] # "acquire") =>
            /\ Len(history'[RouteClient]) = Len(history[RouteClient]) + 1
            /\ history'[RouteClient][Len(history'[RouteClient])].admitted
       /\ (result'[c].kind = "RateLimitError" /\ history' # history) =>
            /\ pc'[c] = "done"
            /\ lockValue'[c] = NoValue
            /\ wrote'[c] = {}
            /\ lock' = lock /\ cache' = cache /\ store' = store
    ]_vars

\* A request was answered RateLimitError while the key it presented is
\* published and another request for it is at work.
C11_Witness ==
  \E c \in Calls, d \in Calls :
    /\ Ended(c, "RateLimitError")
    /\ store[Key(c)] # Null
    /\ Holding(d)

\* C12. For sequential validations of one valid key, each successful
\* response reports a usedCount exactly 1 greater than the previous
\* successful response for that key (1 for the first), on the cache-miss and
\* on the cache-hit path alike; and a validation that begins when the
\* unexpired record stands at its limit is answered UsageLimitError, so with
\* maxUses = 2 the answers are 1, 2, UsageLimitError. Run under SpecSeq.
C12_SequentialCounts ==
  [][\A c \in Calls :
       /\ (pc[c] = "release" /\ pc'[c] = "done" /\ pending[c].kind = "success")
            => pending[c].usedCount = reported[req[c].apiKey] + 1
       /\ (pc[c] = "release" /\ pc'[c] = "done" /\ req[c].exhausted
             /\ store[Key(c)] # Null /\ ~isExpired(store[Key(c)].expiresAt, now))
            => pending[c].kind = "UsageLimitError"
    ]_vars

\* A key with maxUses = 2 was answered 1, then 2 from the cache, and the
\* third validation has ended with UsageLimitError.
C12_Witness ==
  \E c \in Calls :
    /\ Ended(c, "UsageLimitError")
    /\ store[Key(c)] # Null /\ store[Key(c)].maxUses = 2
    /\ reported[req[c].apiKey] = 2
    /\ cache[req[c].apiKey] # Null /\ cache[req[c].apiKey].usedCount = 2

\* C13. Cache/store agreement: in sequential use, a successful response
\* served by the cache-miss path and a successful response served by the
\* cache-hit path each carry the itemKey, permission list, expiresAt and
\* maxUses of the store record; and the hit's usedCount is 1 greater than
\* the previous successful response's and equals the store's usedCount after
\* the hit. Run under SpecSeqAdmin.
SameAsRecord(response, k) ==
  /\ response.itemKey = k.itemKey
  /\ response.permission = k.permission
  /\ response.expiresAt = toISOString(k.expiresAt)
  /\ response.maxUses = k.maxUses

C13_CacheStoreAgreement ==
  [][\A c \in Calls :
       /\ (pc[c] = "cacheSet" /\ pending'[c].kind = "success") =>
            SameAsRecord(pending'[c], store'[Key(c)])
       /\ (pc[c] = "hitStoreInc" /\ pending'[c].kind = "success") =>
            /\ SameAsRecord(pending'[c], store'[Key(c)])
            /\ pending'[c].usedCount = reported[req[c].apiKey] + 1
            /\ pending'[c].usedCount = store'[Key(c)].usedCount
    ]_vars

\* C14: the secret a successful publishApiKey returned, validated before
\* the record expires and before any other successful use, is accepted, and
\* the response carries the item key and the permission list of the publish
\* request and a usedCount of at least 1.
C14_RoundTrip ==
  [][\A c \in Calls :
       (/\ pc[c] = "release" /\ pc'[c] = "done"
        /\ Published
        /\ req[c].apiKey = pub.result.apiKey
        /\ reported[req[c].apiKey] = 0
        /\ now < pub.expiresAt)
         => /\ result'[c].kind = "success"
            /\ result'[c].itemKey = pub.request.itemKey
            /\ result'[c].permission = pub.request.permission
            /\ result'[c].usedCount >= 1]_vars

C14_Witness ==
  \E c \in Calls :
    /\ Ended(c, "success")
    /\ Published
    /\ req[c].apiKey = pub.result.apiKey
    /\ reported[req[c].apiKey] = 1
    /\ result[c].usedCount = 1
    /\ result[c].itemKey = "app://orders/o1"
    /\ result[c].permission = <<"read", "write">>
    /\ pub.request.itemKey = "app://orders/o1"
    /\ pub.request.permission = <<"read", "write">>

\* C15: a publishApiKey call whose itemKey does not parse as a URL with a
\* scheme and a host, whose permission list is empty, whose expiresAt does
\* not parse or is not strictly in the future, or whose maxUses is below 1
\* ends with ValidationError (400, VALIDATION_ERROR) with no secret
\* generated and no store record created or changed.
Rejectable(request) ==
  \/ URL(request.itemKey) = Null
  \/ URL(request.itemKey).protocol = ""
  \/ URL(request.itemKey).hostname = ""
  \/ Len(request.permission) = 0
  \/ request.expiresAt[1] # "iso"
  \/ ~(request.expiresAt[2] > now)
  \/ request.maxUses < 1

C15_InvalidRequestRejected ==
  [][(pub.pc \in {"idle", "done"} /\ pub' # pub /\ Rejectable(pub'.request))
       => /\ pub'.pc = "done"
          /\ pub'.result.kind = "ValidationError"
          /\ statusCode(pub'.result) = 400
          /\ code(pub'.result) = "VALIDATION_ERROR"
          /\ pub'.apiKey = ""
          /\ store' = store
          /\ issued' = issued]_vars

C15_Witness ==
  /\ pub.pc = "done"
  /\ pub.result.kind = "ValidationError"
  /\ pub.request.itemKey = "mailto:u1"
  /\ pub.request.permission # <<>>
  /\ pub.request.maxUses >= 1
  /\ \E h \in Verifiers : store[h] # Null

\* C16: every record publishApiKey creates has usedCount 0 and an expiresAt
\* later than the instant at which it is persisted.
C16_CreatedRecord ==
  [][(pub.pc = "create" /\ pub'.pc = "done" /\ pub'.result.kind = "success")
       => /\ store'[pub.hashedApiKey].usedCount = 0
          /\ store'[pub.hashedApiKey].expiresAt
               > store'[pub.hashedApiKey].publishedAt]_vars

\* C17: when the store already holds a record with the verifier computed
\* for the new secret, publishApiKey ends with DuplicateError (409), creates
\* no record, leaves the existing record as it is, and the call is over: no
\* second secret is generated.
C17_DuplicateRejected ==
  [][(pub.pc = "exists" /\ pub' # pub /\ store[pub.hashedApiKey] # Null)
       => /\ pub'.pc = "done"
          /\ pub'.result.kind = "DuplicateError"
          /\ statusCode(pub'.result) = 409
          /\ pub'.apiKey = pub.apiKey
          /\ store' = store
          /\ issued' = issued]_vars

C17_Witness ==
  /\ pub.pc = "done"
  /\ pub.result.kind = "DuplicateError"
  /\ store[pub.hashedApiKey] # Null
  /\ store[pub.hashedApiKey].itemKey # pub.request.itemKey
  /\ store[pub.hashedApiKey].maxUses # pub.request.maxUses

\* C18, as stated: when the acquire command itself fails, validateApiKey
\* ends with LockAcquisitionError (503, LOCK_ACQUISITION_FAILED), having
\* read neither cache nor store and incremented nothing.
C18_AcquireFailureTyped ==
  [][\A c \in Calls :
       (pc[c] = "acquire" /\ TransportFault(c))
         => /\ pc'[c] = "done"
            /\ result'[c].kind = "LockAcquisitionError"
            /\ statusCode(result'[c]) = 503
            /\ code(result'[c]) = "LOCK_ACQUISITION_FAILED"
            /\ cache' = cache /\ store' = store /\ lock' = lock
            /\ wrote'[c] = {}]_vars

\* C18, as the code has it: when the acquire command itself fails, the call
\* ends there with an error that is no ApiError, answered 500 INTERNAL_ERROR;
\* it has read neither cache nor store, incremented nothing and holds no
\* lock.
C18_AcquireFailureClosed ==
  [][\A c \in Calls :
       (pc[c] = "acquire" /\ TransportFault(c))
         => /\ pc'[c] = "done"
            /\ result'[c].kind = "InternalError"
            /\ statusCode(result'[c]) = 500
            /\ code(result'[c]) = "INTERNAL_ERROR"
            /\ cache' = cache /\ store' = store /\ lock' = lock
            /\ lockValue'[c] = NoValue
            /\ cachedData'[c] = Null /\ validApiKey'[c] = Null
            /\ wrote'[c] = {}]_vars

C18_Witness ==
  \E c \in Calls :
    /\ pc[c] = "done"
    /\ result[c] = Fault("acquire")
    /\ store[Key(c)] # Null
    /\ lock[req[c].apiKey] = NoLock
    /\ wrote[c] = {}

\* C19: a validateApiKey call in which a store, cache or lock command failed
\* never returns success: the failure travels to the route as an error that
\* is no ApiError, and the route answers 500 INTERNAL_ERROR.
C19_FailureNeverSuccess ==
  [][\A c \in Calls :
       /\ TransportFault(c) =>
            \/ /\ pc'[c] = "done"
               /\ result'[c].kind = "InternalError"
               /\ statusCode(result'[c]) = 500
               /\ code(result'[c]) = "INTERNAL_ERROR"
            \/ /\ pc'[c] = "release"
               /\ pending'[c].kind = "InternalError"
       /\ (pc[c] = "release" /\ pending[c].kind = "InternalError"
             /\ pc'[c] = "done") =>
            /\ result'[c].kind = "InternalError"
            /\ statusCode(result'[c]) = 500
            /\ code(result'[c]) = "INTERNAL_ERROR"]_vars

C19_Witness ==
  \E c \in Calls :
    /\ pc[c] = "done"
    /\ result[c] = Fault("try")
    /\ "store" \in wrote[c]
    /\ store[Key(c)].usedCount = 1

\* C20: after any sequence of publish and validate operations, no store
\* record and no log record holds a whole plaintext secret; a log record
\* holds at most the first characters of one.
C20_SecretConfidential ==
  /\ \A h \in Verifiers :
       store[h] # Null =>
         /\ store[h].searchableHash \notin Secrets
         /\ store[h].itemKey \notin Secrets
         /\ store[h].hashedApiKey[1] = "argon2id"
  /\ \A record \in log : \A k \in DOMAIN record :
       \A i \in DOMAIN record[k] : record[k][i][1] # "whole"

C22_CacheDisposable ==
  [][\A c \in Calls :
       /\ (pc[c] = "cacheGet" /\ pc'[c] = "release") =>
            pending'[c] = Error(findOutcome(req[c].apiKey, now))
       /\ (pc[c] = "cacheGet" /\ pc'[c] = "cacheIncGet") =>
            findOutcome(req[c].apiKey, now) = "ok"
       /\ (pc[c] = "hitStoreInc" /\ pc'[c] = "release") =>
            /\ pending'[c].kind = "success"
            /\ pending'[c].itemKey = store'[Key(c)].itemKey
            /\ pending'[c].permission = store'[Key(c)].permission
            /\ pending'[c].usedCount = store'[Key(c)].usedCount]_vars

\* C23: revokeKey on an existing record sets its expiresAt to the current
\* instant and nothing else (the record stays, with its usedCount, maxUses,
\* itemKey, permission and verifier), and every validateApiKey call for the
\* key that starts after the revocation is rejected.
C23_RevokeRejectsLater ==
  [][/\ \A h \in Verifiers :
          (store[h] # Null /\ store'[h] # Null
             /\ store'[h].expiresAt # store[h].expiresAt) =>
            store' = [store EXCEPT ![h].expiresAt = now]
     /\ \A c \in Calls :
          (pc[c] = "release" /\ pc'[c] = "done"
             /\ req[c].expired /\ store[Key(c)] # Null)
            => pending[c].kind # "success"]_vars

\* C24: exact sliding window. A checkLimit call at time t for an identity is
\* admitted exactly when fewer than maxRequests earlier calls for that
\* identity, admitted or rejected, have a timestamp later than t - windowMs;
\* the sorted set holds no entry with a timestamp at or before the last
\* call's t - windowMs.
InWindow(h, i) == {j \in 1..(i - 1) : h[j].at > h[i].at - rateLimitWindow}

C25_RejectedCounted ==
  [][\A ip \in Identities :
       (Len(history'[ip]) = Len(history[ip]) + 1
          /\ ~history'[ip][Len(history'[ip])].admitted) =>
         LET h == history'[ip]
             entries == rate'[ip].entries
         IN /\ entries # <<>>
            /\ entries[Len(entries)] = now
            /\ Len(entries) = Cardinality(InWindow(h, Len(h))) + 1
            /\ Len(entries) > rateLimitMax
            /\ rate'[ip].ttlAt >= now + rateLimitWindow
            /\ rate'[ip].ttlAt < now + rateLimitWindow + 1000]_vars

\* Two calls in a row were rejected, and the sorted set holds both next to
\* the admitted ones.
C25_Witness ==
  \E ip \in Identities :
    LET h == history[ip]
    IN /\ Len(h) = rateLimitMax + 2
       /\ ~h[rateLimitMax + 1].admitted
       /\ ~h[rateLimitMax + 2].admitted
       /\ Len(rate[ip].entries) = rateLimitMax + 2

\* C26: acquire is one non-blocking attempt. When the lock of the secret is
\* held, the call's acquire step leaves the lock's token and deadline as
\* they are, and the call ends there with LockAcquisitionError: it has read
\* neither cache nor store, written nothing, and does not run release.
C26_AcquireNonBlocking ==
  [][\A c \in Calls :
       (pc[c] = "acquire" /\ pc'[c] # "acquire"
          /\ lock[req[c].apiKey].value # NoValue) =>
         /\ lock' = lock
         /\ pc'[c] = "done"
         /\ result'[c].kind = "LockAcquisitionError"
         /\ statusCode(result'[c]) = 503
         /\ lockValue'[c] = NoValue
         /\ cachedData'[c] = Null /\ validApiKey'[c] = Null
         /\ cache' = cache /\ store' = store
         /\ wrote'[c] = {}]_vars

\* A call was turned away at the lock that another call for the same,
\* published secret holds with its own token.
C26_Witness ==
  \E c \in Calls, d \in Calls :
    /\ Ended(c, "LockAcquisitionError")
    /\ Holding(d)
    /\ req[c].apiKey = req[d].apiKey
    /\ store[Key(c)] # Null
    /\ lock[req[d].apiKey].value = lockValue[d]
    /\ lockValue[c] = NoValue

\* C27: token-checked release. The release step of a call deletes the lock
\* exactly when the lock's current value is the call's token; otherwise
\* (the lock ran out, or another call has taken it since) the lock stays as
\* it is. Either way nothing is thrown: the call's answer is the outcome it
\* had before the release.
C27_TokenCheckedRelease ==
  [][\A c \in Calls :
       (pc[c] = "release" /\ pc'[c] = "done") =>
         /\ IF lock[req[c].apiKey].value = lockValue[c]
              THEN lock' = [lock EXCEPT ![req[c].apiKey] = NoLock]
              ELSE lock' = lock
         /\ releaseScript(lock[req[c].apiKey], lockValue[c]).ok
              <=> lock[req[c].apiKey].value = lockValue[c]
         /\ result'[c] = pending[c]]_vars

\* A call has released with a token that was no longer the lock's value and
\* was answered success; the lock is still held by the call that took it
\* over.
C27_Witness ==
  \E c \in Calls, d \in Calls :
    /\ c # d
    /\ Ended(c, "success")
    /\ lockValue[c] # NoValue
    /\ Holding(d)
    /\ req[c].apiKey = req[d].apiKey
    /\ lock[req[d].apiKey].value = lockValue[d]

----------------------------------------------------------------------------
\* A validator process dying while it holds the lock: the calls in the try
\* block or about to run the finally block stop for good, release is never
\* sent, and nothing but the server-side PX expiry can free the lock.
LockHeld == InTry \cup {"release"}

Crash(c) ==
  /\ pc[c] \in LockHeld
  /\ pc' = [pc EXCEPT ![c] = "crashed"]
  /\ UNCHANGED <<now, store, cache, lock, rate, req, locals, pending, result,
                 wrote, issued, history, reported, pub, log>>

NextCrash ==
  \/ Tick
  \/ \E c \in Calls : Validate(c, BurstSecret)
  \/ \E c \in Calls : ValidateStep(c)
  \/ \E c \in Calls : Crash(c)

\* Real time advances whatever the validators do; no validator step is
\* fair, a stalled or crashed call may never move again.
SpecCrash == InitBurst /\ [][NextCrash]_vars /\ WF_vars(Tick)

\* Instants at which a lock taken sees its deadline inside the modelled time.
AcquireTimes == {k * Step : k \in 0..(MaxTime - 1)}

\* C28: a lock taken by a validator that never releases it (it crashed in
\* the try block) is freed by its TTL: every lock value set leads to the
\* lock being free, with fairness of time only, and an acquire attempted on
\* the freed lock succeeds and installs the attempting call's own token.
C28_LockBackstop ==
  /\ \A s \in Secrets : \A c \in Calls : \A t \in AcquireTimes :
       (lock[s].value = generateLockValue(c, t)) ~> (lock[s].value = NoValue)
  /\ [][\A c \in Calls :
          (pc[c] = "acquire" /\ pc'[c] # "acquire"
             /\ lock[req[c].apiKey].value = NoValue)
            => /\ pc'[c] = "cacheGet"
               /\ lock'[req[c].apiKey].value = generateLockValue(c, now)
               /\ lock'[req[c].apiKey].ttlAt = now + lockTtl]_vars

C28_Witness ==
  \E c, d \in Calls :
    /\ c # d
    /\ pc[c] = "crashed" /\ lockValue[c] # NoValue
    /\ pc[d] \in LockHeld /\ req[d].apiKey = req[c].apiKey
    /\ lock[req[d].apiKey].value = lockValue[d]
    /\ lockValue[d] # lockValue[c]

----------------------------------------------------------------------------
\* C29: a validation writes the store before it writes the cache, on the
\* hit path and on the miss path: no step of a call writes the cache while
\* the call has not yet written the store, and a call that dies between its
\* two writes has written the store, so that the cache entry is never ahead
\* of the store record.
C29_StoreBeforeCache ==
  [][\A c \in Calls :
       /\ ("cache" \notin wrote[c] /\ "cache" \in wrote'[c])
            => "store" \in wrote[c]
       /\ (pc[c] # "crashed" /\ pc'[c] = "crashed" /\ "cache" \in wrote[c])
            => /\ "store" \in wrote[c]
               /\ cache[req[c].apiKey] # Null
                    => cache[req[c].apiKey].usedCount
                         <= store[hashApiKey(req[c].apiKey)].usedCount]_vars

----------------------------------------------------------------------------
\* A key validated again and again over more than one cache TTL window:
\* the run lasts one clock step longer than the others, so that an entry
\* set at 0 and set again within its window is still there after the first
\* window has closed.
StaleHorizon == Horizon + Step

TickLate ==
  /\ now >= Horizon
  /\ now < StaleHorizon
  /\ now' = now + Step
  /\ lock' = [s \in Secrets |->
               IF lock[s].value # NoValue /\ now' >= lock[s].ttlAt
                 THEN NoLock ELSE lock[s]]
  /\ cache' = [s \in Secrets |->
                IF Alive(cache[s], now') THEN cache[s] ELSE Null]
  /\ rate' = [i \in Identities |->
               IF rate[i].entries # <<>> /\ now' >= rate[i].ttlAt
                 THEN NoRate ELSE rate[i]]
  /\ UNCHANGED <<store, pc, req, locals, pending, result, wrote, issued, history, reported, pub, log>>

\* One key in the store, valid beyond the run and with a use left for
\* every instant of the run.
InitStale ==
  /\ now = 0
  /\ store = [h \in Verifiers |->
               IF h = hashApiKey(BurstSecret)
                 THEN [searchableHash |-> generateSearchableHash(BurstSecret),
                       hashedApiKey |-> h,
                       itemKey |-> CHOOSE i \in ItemKeys : TRUE,
                       permission |-> CHOOSE p \in PermissionLists : TRUE,
                       expiresAt |-> StaleHorizon + Step,
                       usedCount |-> 0,
                       maxUses |-> MaxTime + 2]
                 ELSE Null]
  /\ cache = [s \in Secrets |-> Null]
  /\ lock = [s \in Secrets |-> NoLock]
  /\ rate = [i \in Identities |-> NoRate]
  /\ pc = [c \in Calls |-> "idle"]
  /\ req = [c \in Calls |-> Null]
  /\ lockValue = [c \in Calls |-> NoValue]
  /\ cachedData = [c \in Calls |-> Null]
  /\ data = [c \in Calls |-> Null]
  /\ validApiKey = [c \in Calls |-> Null]
  /\ updatedKey = [c \in Calls |-> Null]
  /\ pending = [c \in Calls |-> Null]
  /\ result = [c \in Calls |-> Null]
  /\ wrote = [c \in Calls |-> {}]
  /\ issued = {BurstSecret}
  /\ history = [i \in Identities |-> <<>>]
  /\ reported = [s \in Secrets |-> 0]
  /\ pub = NoPublish
  /\ log = {}

NextStale ==
  \/ Tick
  \/ TickLate
  \/ Quiet /\ revokeKey(hashApiKey(BurstSecret))
  \/ \E c \in Calls : ValidateAlone(c, BurstSecret)
  \/ \E c \in Calls : ValidateStep(c)

SpecStale == InitStale /\ [][NextStale]_vars

\* C30: a cache entry is served for at most one cache TTL window after it
\* was populated from the store, so a revocation is observed at most one
\* window later.  In SpecStale a store record whose expiresAt is not after
\* now was revoked at expiresAt, and an entry that passes the hit checks at
\* now was populated before the revocation: no entry passes the hit checks
\* more than cacheTtl seconds after the revocation of its record.
C30_BoundedStaleness ==
  [][\A c \in Calls :
       (/\ pc[c] = "cacheGet" /\ pc'[c] = "cacheIncGet"
        /\ store[Key(c)] # Null
        /\ store[Key(c)].expiresAt <= now)
         => now - store[Key(c)].expiresAt <= cacheTtl * 1000]_vars

----------------------------------------------------------------------------
\* The store records that share the fingerprint of the secret call c presents.
Candidates(c) ==
  {store[h] : h \in {v \in Verifiers :
     store[v] # Null
       /\ store[v].searchableHash = generateSearchableHash(req[c].apiKey)}}

\* C31: on the cache-miss path a call with no candidate of its fingerprint
\* ends with NotFoundError, a call whose candidates all fail verification
\* ends with UnauthorizedError, and the call goes on to the increment only
\* with a candidate whose verifier is the verifier of the presented secret;
\* the increment then changes that record and no other.
C31_MissPathVerifies ==
  [][\A c \in Calls :
       /\ (pc[c] = "find" /\ pc'[c] # "find") =>
            /\ Candidates(c) = {}
                 => pc'[c] = "release"
                      /\ pending'[c] = Error("NotFoundError")
            /\ (Candidates(c) # {}
                  /\ \A k \in Candidates(c) :
                       k.hashedApiKey # hashApiKey(req[c].apiKey))
                 => pc'[c] = "release"
                      /\ pending'[c] = Error("UnauthorizedError")
            /\ pc'[c] = "missStoreInc"
                 => /\ validApiKey'[c] \in Candidates(c)
                    /\ validApiKey'[c].hashedApiKey = hashApiKey(req[c].apiKey)
       /\ (pc[c] = "missStoreInc" /\ pc'[c] # "missStoreInc") =>
            \A h \in Verifiers : h # Key(c) => store'[h] = store[h]]_vars

C31_Witness ==
  \E c \in Calls :
    /\ pc[c] = "release"
    /\ pending[c] = Error("UnauthorizedError")
    /\ cache[req[c].apiKey] = Null
    /\ Candidates(c) # {}
    /\ store[Key(c)] = Null
    /\ \E d \in Calls : d # c /\ result[d].kind = "success"

----------------------------------------------------------------------------
\* A cache the validator does not control alone: something else writes the
\* entry stored under a secret's cache key, and the entry then carries the
\* verifier of another secret (poisoning or corruption of the Redis value).
Corrupt(s) ==
  /\ cache[s] # Null
  /\ \E v \in Verifiers \ {hashApiKey(s)} :
       cache' = [cache EXCEPT ![s].hashedApiKey = v]
  /\ UNCHANGED <<now, store, lock, rate, pc, req, locals, pending, result,
                 wrote, issued, history, reported, pub, log>>

NextPoison ==
  \/ Tick
  \/ Corrupt(BurstSecret)
  \/ \E c \in Calls : ValidateAlone(c, BurstSecret)
  \/ \E c \in Calls : ValidateStep(c)

SpecPoison == InitBurst /\ [][NextPoison]_vars

\* The entry under the secret of call c carries a verifier that is not the
\* verifier of that secret.
Poisoned(c) ==
  /\ cache[req[c].apiKey] # Null
  /\ cache[req[c].apiKey].hashedApiKey # hashApiKey(req[c].apiKey)

\* C32: on a cache hit the secret is verified against the cached verifier
\* before the expiry and usage checks: when the cached verifier does not
\* verify, the call goes straight to the release with UnauthorizedError,
\* whatever the entry's expiry and usage, the store is not read or written,
\* the entry is left as it is, and the release hands out that error.
C32_HitReverifies ==
  [][\A c \in Calls :
       /\ (pc[c] = "cacheGet" /\ pc'[c] # "cacheGet" /\ Poisoned(c)) =>
            /\ pc'[c] = "release"
            /\ pending'[c] = Error("UnauthorizedError")
            /\ store' = store /\ cache' = cache
            /\ wrote'[c] = {}
       /\ (pc[c] = "release" /\ pc'[c] = "done"
             /\ pending[c] = Error("UnauthorizedError") /\ Poisoned(c)) =>
            /\ result'[c] = Error("UnauthorizedError")
            /\ store' = store /\ cache' = cache
            /\ wrote'[c] = {}]_vars

C32_Witness ==
  \E c \in Calls :
    /\ pc[c] = "release"
    /\ pending[c] = Error("UnauthorizedError")
    /\ Poisoned(c)
    /\ isExhausted(cache[req[c].apiKey].usedCount, cache[req[c].apiKey].maxUses)
    /\ wrote[c] = {}

----------------------------------------------------------------------------
\* C33: every store record has usedCount >= 0, no step lowers the usedCount
\* of a record that stays in the store, and a step that changes it is the
\* store increment of a validation: it adds exactly one and leaves the
\* record's other fields alone.
C33_UsedCountMonotonic ==
  /\ [](\A h \in Verifiers : store[h] # Null => store[h].usedCount >= 0)
  /\ [][\A h \in Verifiers :
          (store[h] # Null /\ store'[h] # Null) =>
            /\ store'[h].usedCount >= store[h].usedCount
            /\ store'[h].usedCount # store[h].usedCount =>
                 /\ store'[h] = [store[h] EXCEPT !.usedCount = @ + 1]
                 /\ \E c \in Calls :
                      /\ pc[c] \in {"hitStoreInc", "missStoreInc"}
                      /\ pc'[c] # pc[c]]_vars

C33_Witness ==
  \E h \in Verifiers :
    /\ store[h] # Null
    /\ store[h].usedCount >= 1
    /\ store[h].expiresAt = now
    /\ now > 0
    /\ Quiet

----------------------------------------------------------------------------
\* Concurrent validations of the stored secret and of another secret.
NextPair ==
  \/ Tick
  \/ \E c \in Calls, s \in Secrets : Validate(c, s)
  \/ \E c \in Calls : ValidateStep(c)

SpecPair == InitBurst /\ [][NextPair]_vars

\* C34: validations of different secrets do not interfere: an acquire
\* fails only when the lock of its own secret is held, whatever the locks
\* of the other secrets, and no step of a validation changes the store
\* record, the cache entry or the lock of a secret it does not present.
C34_SecretsIndependent ==
  [][\A c \in Calls :
       (pc[c] \notin {"idle", "done"} /\ pc'[c] # pc[c]) =>
         /\ (pc[c] = "acquire" /\ lock[req[c].apiKey].value = NoValue)
              => /\ pc'[c] = "cacheGet"
                 /\ lock'[req[c].apiKey].value = generateLockValue(c, now)
         /\ \A s \in Secrets \ {req[c].apiKey} :
              /\ store'[hashApiKey(s)] = store[hashApiKey(s)]
              /\ cache'[s] = cache[s]
              /\ lock'[s] = lock[s]]_vars

C34_Witness ==
  \E c, d \in Calls :
    /\ pc[c] \in LockHeld /\ pc[d] \in LockHeld
    /\ req[c].apiKey # req[d].apiKey
    /\ lock[req[c].apiKey].value = lockValue[c]
    /\ lock[req[d].apiKey].value = lockValue[d]
    /\ store[Key(c)] # Null /\ store[Key(c)].usedCount > 0

----------------------------------------------------------------------------
\* C35: in every reachable state every store record has usedCount <=
\* maxUses, under every interleaving of concurrent validations of the same
\* secret, the ones in which the lock expires under its holder included.
C35_UsageWithinLimit ==
  \A h \in Verifiers : store[h] # Null => store[h].usedCount <= store[h].maxUses

----------------------------------------------------------------------------
\* C36: whenever a secret has a cache entry and no validation of that
\* secret is in progress, the entry's usedCount is the usedCount of the
\* store record of that secret.
C36_CacheMirrorsStore ==
  \A s \in Secrets :
    (/\ \A c \in Calls : pc[c] \in {"idle", "done"} \/ req[c].apiKey # s
     /\ cache[s] # Null
     /\ store[hashApiKey(s)] # Null)
      => cache[s].usedCount = store[hashApiKey(s)].usedCount

----------------------------------------------------------------------------
\* checkLimit as the calls run it concurrently: a call reads the clock
\* (Date.now()) and queues its four commands, and the MULTI is executed by
\* the server later, as one step, with the timestamp the call read.  The
\* transactions of two calls can execute in either order.
checkLimitBegin(c, ip) ==
  /\ pc[c] \in {"idle", "done"}
  /\ Len(history[ip]) + Cardinality({d \in Calls : pc[d] = "exec"}) < MaxEntries
  /\ req' = [req EXCEPT ![c] = [identifier |-> ip, now |-> now]]
  /\ pc' = [pc EXCEPT ![c] = "exec"]
  /\ UNCHANGED <<now, store, cache, lock, rate, locals, pending, result,
                 wrote, issued, history, reported, pub, log>>

checkLimitExec(c) ==
  /\ pc[c] = "exec"
  /\ LET ip == req[c].identifier
         r == checkLimit(rate[ip], rateLimitMax, rateLimitWindow, req[c].now)
     IN /\ rate' = [rate EXCEPT ![ip] = r.key]
        /\ history' = [history EXCEPT ![ip] =
                         Append(@, [at |-> req[c].now, admitted |-> r.admitted])]
        /\ result' = [result EXCEPT ![c] =
                        IF r.admitted THEN Null ELSE Error("RateLimitError")]
  /\ pc' = [pc EXCEPT ![c] = "done"]
  /\ UNCHANGED <<now, store, cache, lock, req, locals, pending, wrote, issued,
                 reported, pub, log>>

NextRateRace ==
  \/ Tick
  \/ \E c \in Calls, ip \in Identities : checkLimitBegin(c, ip)
  \/ \E c \in Calls : checkLimitExec(c)

SpecRateRace == Init /\ [][NextRateRace]_vars

\* The admitted calls of history h whose timestamps lie in the window that
\* ends at the timestamp of call i.
AdmittedInWindow(h, i) ==
  {j \in 1..Len(h) : /\ h[j].admitted
                     /\ h[j].at > h[i].at - rateLimitWindow
                     /\ h[j].at <= h[i].at}

\* C37: under every interleaving of concurrent checkLimit calls for one
\* identity, at most rateLimitMax calls are admitted among the calls whose
\* timestamps lie within one window length.
C37_AtomicCeiling ==
  \A ip \in Identities :
    \A i \in 1..Len(history[ip]) :
      Cardinality(AdmittedInWindow(history[ip], i)) <= rateLimitMax

----------------------------------------------------------------------------
\* C38: a validateApiKey call that has ended in an error, typed or not, the
\* failure of the cache write or of the lock release included, has not
\* incremented the store record.
C38_FailureConsumesNoUse ==
  \A c \in Calls :
    (pc[c] = "done" /\ result[c].kind # "success") => "store" \notin wrote[c]

----------------------------------------------------------------------------
\* The admin service over a store of any content: the records are drawn
\* from the expiries and counts a store can hold, and the admin calls
\* cleanupExpired and getOverallStats run against it as time passes and
\* keys are revoked.
lt_Inclusive(expiresAt, t) == expiresAt <= t

\* prisma where: { expiresAt: { lt: new Date() } }
lt(expiresAt, t) == expiresAt < t

RecordChoices(s) ==
  {[searchableHash |-> generateSearchableHash(s),
    hashedApiKey |-> hashApiKey(s),
    itemKey |-> CHOOSE i \in ItemKeys : TRUE,
    permission |-> CHOOSE p \in PermissionLists : TRUE,
    expiresAt |-> e,
    usedCount |-> u,
    maxUses |-> m] :
     e \in {0, Step, Horizon + Step}, u \in 0..1, m \in {1}}
  \cup {Null}

InitRecords ==
  /\ now = 0
  /\ store \in [Verifiers -> UNION {RecordChoices(s) : s \in Secrets}]
  /\ \A s \in Secrets : store[hashApiKey(s)] \in RecordChoices(s)
  /\ cache = [s \in Secrets |-> Null]
  /\ lock = [s \in Secrets |-> NoLock]
  /\ rate = [i \in Identities |-> NoRate]
  /\ pc = [c \in Calls |-> "idle"]
  /\ req = [c \in Calls |-> Null]
  /\ lockValue = [c \in Calls |-> NoValue]
  /\ cachedData = [c \in Calls |-> Null]
  /\ data = [c \in Calls |-> Null]
  /\ validApiKey = [c \in Calls |-> Null]
  /\ updatedKey = [c \in Calls |-> Null]
  /\ pending = [c \in Calls |-> Null]
  /\ result = [c \in Calls |-> Null]
  /\ wrote = [c \in Calls |-> {}]
  /\ issued = {s \in Secrets : store[hashApiKey(s)] # Null}
  /\ history = [i \in Identities |-> <<>>]
  /\ reported = [s \in Secrets |-> 0]
  /\ pub = NoPublish
  /\ log = {}

\* An admin request arrives: the route calls cleanupExpired or
\* getOverallStats.
AdminCall(c, op) ==
  /\ pc[c] \in {"idle", "done"}
  /\ pc' = [pc EXCEPT ![c] = op]
  /\ result' = [result EXCEPT ![c] = Null]
  /\ UNCHANGED <<now, store, cache, lock, rate, req, locals, pending, wrote,
                 issued, history, reported, pub, log>>

\* deleteMany with the lt filter, and the count it returns.
cleanupExpired(c) ==
  /\ pc[c] = "cleanup"
  /\ LET gone == {h \in Verifiers :
                    store[h] # Null /\ lt(store[h].expiresAt, now)}
     IN /\ store' = [h \in Verifiers |-> IF h \in gone THEN Null ELSE store[h]]
        /\ result' = [result EXCEPT ![c] =
                        [kind |-> "success", deletedCount |-> Cardinality(gone)]]
  /\ pc' = [pc EXCEPT ![c] = "done"]
  /\ UNCHANGED <<now, cache, lock, rate, req, locals, pending, wrote, issued,
                 history, reported, pub, log>>

getOverallStats(t) ==
  LET keys == {h \in Verifiers : store[h] # Null}
      totalKeys == Cardinality(keys)
      expiredKeys == Cardinality({h \in keys : lt(store[h].expiresAt, t)})
      exhaustedKeys ==
        Cardinality({h \in keys : store[h].usedCount >= store[h].maxUses})
  IN [kind |-> "success",
      totalKeys |-> totalKeys,
      activeKeys |-> totalKeys - expiredKeys - exhaustedKeys,
      expiredKeys |-> expiredKeys,
      exhaustedKeys |-> exhaustedKeys]

GetOverallStats(c) ==
  /\ pc[c] = "stats"
  /\ result' = [result EXCEPT ![c] = getOverallStats(now)]
  /\ pc' = [pc EXCEPT ![c] = "done"]
  /\ UNCHANGED <<now, store, cache, lock, rate, req, locals, pending, wrote,
                 issued, history, reported, pub, log>>

NextRecords ==
  \/ Tick
  \/ \E h \in Verifiers : revokeKey(h)
  \/ \E c \in Calls, op \in {"cleanup", "stats"} : AdminCall(c, op)
  \/ \E c \in Calls : cleanupExpired(c)
  \/ \E c \in Calls : GetOverallStats(c)

SpecRecords == InitRecords /\ [][NextRecords]_vars

\* C39: cleanupExpired deletes exactly the records whose expiresAt is
\* strictly earlier than now and leaves every other record as it is; a
\* record it deletes is one validateApiKey rejects as expired at that
\* instant; and the count it returns is the number of records deleted.
C39_CleanupExact ==
  [][\A c \in Calls :
       (pc[c] = "cleanup" /\ pc'[c] = "done") =>
         /\ \A h \in Verifiers :
              store'[h] = IF store[h] # Null /\ store[h].expiresAt < now
                            THEN Null ELSE store[h]
         /\ \A h \in Verifiers :
              (store[h] # Null /\ store'[h] = Null)
                => isExpired(store[h].expiresAt, now)
         /\ result'[c].deletedCount =
              Cardinality({h \in Verifiers :
                             store[h] # Null /\ store'[h] = Null})]_vars

C39_Witness ==
  \E c \in Calls :
    /\ pc[c] = "done"
    /\ "deletedCount" \in DOMAIN result[c]
    /\ result[c].deletedCount = 1
    /\ \E h \in Verifiers : store[h] # Null /\ store[h].expiresAt = now

----------------------------------------------------------------------------
\* The records of the store that are expired (as getOverallStats counts
\* them) or exhausted.
Spent(t) ==
  {h \in Verifiers :
     /\ store[h] # Null
     /\ \/ store[h].expiresAt < t
        \/ store[h].usedCount >= store[h].maxUses}

\* C40: getOverallStats reports as activeKeys the number of records that
\* are neither expired nor exhausted, whatever the records: activeKeys is
\* never negative, and totalKeys is activeKeys plus the number of records
\* that are expired or exhausted.
C40_ActiveKeys ==
  [][\A c \in Calls :
       (pc[c] = "stats" /\ pc'[c] = "done") =>
         /\ result'[c].activeKeys =
              Cardinality({h \in Verifiers : store[h] # Null} \ Spent(now))
         /\ result'[c].activeKeys >= 0
         /\ result'[c].totalKeys =
              result'[c].activeKeys + Cardinality(Spent(now))]_vars

====
